---- MODULE Spec2Model ----
(***************************************************************************)
(* State-machine model of the streaming transcription coordinator of       *)
(* voice-to-text (src-tauri/src/lib.rs, run_worker) together with the      *)
(* producers of its command channel.                                       *)
(*                                                                         *)
(* Strings are sequences of Unicode code points; their UTF-8 byte form is  *)
(* computed by Utf8/Bytes, and every length, slice and prefix test of the  *)
(* worker is done on bytes, as in the Rust code.                           *)
(***************************************************************************)
EXTENDS Integers, Sequences, FiniteSets, TLC

\* ---------------------------------------------------------------- bounds
MaxBytes == 3        \* UTF-8 bytes per transcript
MaxTranscripts == 2  \* distinct transcripts the model returns in one session
MaxQueue == 1        \* commands waiting in the channel
EventWindow == 3     \* status-changed events remembered
MaxChars == 3        \* code points per argument of stable_prefix_len
MaxReleases == 4     \* Alt releases the hotkey listener sees

\* ------------------------------------------------------ program constants
MIN_AUDIO_SAMPLES == 16000
DefaultPath == 1     \* the path returned by default_model_path()
DOUBLE_PRESS_WINDOW == 400  \* milliseconds

\* ------------------------------------------------------------ input sets
\* 'a' (1 byte in UTF-8) and U+00E9 (2 bytes in UTF-8)
Alphabet == {97, 233}
\* model paths a Settings value may carry
Paths == {DefaultPath, 2}
\* lengths of the sample vector returned by snapshot()
AudioLens == {MIN_AUDIO_SAMPLES - 1, MIN_AUDIO_SAMPLES}

\* --------------------------------------------------------- UTF-8 strings
\* a length that counts every code point as one byte
Utf8Len_OneByte(c) == 1

\* char::len_utf8
Utf8Len(c) ==
    IF c < 128 THEN 1 ELSE IF c < 2048 THEN 2 ELSE IF c < 65536 THEN 3 ELSE 4

\* the UTF-8 encoding of one code point
Utf8(c) ==
    IF c < 128 THEN <<c>>
    ELSE IF c < 2048 THEN <<192 + (c \div 64), 128 + (c % 64)>>
    ELSE IF c < 65536
         THEN <<224 + (c \div 4096), 128 + ((c \div 64) % 64), 128 + (c % 64)>>
         ELSE <<240 + (c \div 262144), 128 + ((c \div 4096) % 64),
                128 + ((c \div 64) % 64), 128 + (c % 64)>>

RECURSIVE Bytes(_)
\* str::as_bytes : the bytes of a string
Bytes(s) == IF s = <<>> THEN <<>> ELSE Utf8(Head(s)) \o Bytes(Tail(s))

\* str::len : length in bytes
ByteLen(s) == Len(Bytes(s))

\* str::is_char_boundary
IsCharBoundary(s, i) == \E k \in 0..Len(s) : ByteLen(SubSeq(s, 1, k)) = i

\* the bytes of &s[lo..hi] (defined when lo and hi are char boundaries)
Slice(s, lo, hi) == SubSeq(Bytes(s), lo + 1, hi)

\* byte-sequence prefix order
IsPrefix(p, q) == Len(p) <= Len(q) /\ SubSeq(q, 1, Len(p)) = p

RECURSIVE stable_prefix_len(_, _)
\* lib.rs stable_prefix_len: zip the chars, stop at the first mismatch
stable_prefix_len(a, b) ==
    IF a = <<>> \/ b = <<>> THEN 0
    ELSE IF Head(a) # Head(b) THEN 0
    ELSE Utf8Len(Head(a)) + stable_prefix_len(Tail(a), Tail(b))

\* every text transcribe() may return
Transcripts ==
    {s \in UNION {[1..n -> Alphabet] : n \in 0..MaxBytes} : ByteLen(s) <= MaxBytes}

\* ----------------------------------------------------------------- state
VARIABLES
    status,       \* AppState.status
    queue,        \* the mpsc command channel, FIFO
    transcriber,  \* run_worker local: 0 = None, else the path it was loaded from
    recorder,     \* run_worker local: TRUE iff recorder is Some
    prev_text,    \* run_worker local
    typed_len,    \* run_worker local
    pc,           \* worker position: "recv", "tick" (inside the transcribe
                  \* call of a streaming tick), "finalize" (inside the final
                  \* transcribe call) or "panicked" (the thread has unwound)
    typed,        \* history: bytes passed to type_text in the current session
    produced,     \* history: transcripts returned by transcribe in the session
    events,       \* history: the last EventWindow status-changed events
    lastOp,       \* history: the last handler the worker ran and its outcome
    arg_a,        \* stable_prefix_len in isolation: its argument a
    arg_b,        \* stable_prefix_len in isolation: its argument b
    ret,          \* stable_prefix_len in isolation: its result, -1 before the call
    armed,        \* start_listener local
    since_release,\* start_listener: now - last_release in ms, saturated at
                  \* DOUBLE_PRESS_WINDOW
    hotkey_chan,  \* DoubleAlt events waiting in the hotkey channel
    releases,     \* history: Alt releases seen so far
    run,          \* history: length of the current run of rapid consecutive
                  \* Alt releases
    run_sent,     \* history: DoubleAlt events sent during the current run
    sent          \* history: DoubleAlt events sent so far

\* the variables of the isolated stable_prefix_len call
pure == <<arg_a, arg_b, ret>>

\* the variables of the hotkey listener and its forwarding thread
hotkey == <<armed, since_release, hotkey_chan, releases, run, run_sent, sent>>

vars == <<status, queue, transcriber, recorder, prev_text, typed_len, pc,
          typed, produced, events, lastOp, pure, hotkey>>

\* start_listener before the first event: last_release lies 60 s back
HotkeyStart ==
    /\ armed = FALSE
    /\ since_release = DOUBLE_PRESS_WINDOW
    /\ hotkey_chan = 0
    /\ releases = 0
    /\ run = 0
    /\ run_sent = 0
    /\ sent = 0

\* a record of one handler run: the handler, its outcome, the transcript it
\* obtained, the bytes it passed to type_text, the number of error events it
\* published, the length of the snapshot it took and what became of its
\* type_text call
Op(op, out, text, emitted, errs, audio, typing) ==
    [op |-> op, out |-> out, text |-> text, emitted |-> emitted, errs |-> errs,
     audio |-> audio, typing |-> typing]

\* run(): AppState construction, and the prologue of run_worker
Init ==
    /\ status = "Idle"
    /\ queue = <<>>
    /\ \E exists \in BOOLEAN, ok \in BOOLEAN :
         transcriber = IF exists /\ ok THEN DefaultPath ELSE 0
    /\ recorder = FALSE
    /\ prev_text = <<>>
    /\ typed_len = 0
    /\ pc = "recv"
    /\ typed = <<>>
    /\ produced = {}
    /\ events = <<>>
    /\ lastOp = Op("none", "ok", <<>>, <<>>, 0, 0, "none")
    /\ arg_a = <<>>
    /\ arg_b = <<>>
    /\ ret = -1
    /\ HotkeyStart

\* ------------------------------------------------------------- producers
\* mpsc::Sender::send: fails (and is ignored) once the receiver is dropped
Send(msg) == IF pc = "panicked" THEN queue ELSE Append(queue, msg)

\* toggle_recording, and the hotkey forwarding thread of run()
SendToggle ==
    /\ UNCHANGED <<pure, hotkey>>
    /\ Len(queue) < MaxQueue
    /\ queue' = Send([cmd |-> "Toggle", path |-> 0,
                      inFinal |-> (pc = "finalize")])
    /\ UNCHANGED <<status, transcriber, recorder, prev_text, typed_len, pc,
                   typed, produced, events, lastOp>>

\* update_settings
SendUpdateSettings(p) ==
    /\ UNCHANGED <<pure, hotkey>>
    /\ Len(queue) < MaxQueue
    /\ queue' = Send([cmd |-> "UpdateSettings", path |-> p, inFinal |-> FALSE])
    /\ UNCHANGED <<status, transcriber, recorder, prev_text, typed_len, pc,
                   typed, produced, events, lastOp>>

\* ---------------------------------------------------------------- worker
\* the event log after app.emit("status-changed", s)
Publish(evs, s) ==
    LET e == Append(evs, s) IN IF Len(e) > EventWindow THEN Tail(e) ELSE e

\* set_status that publishes the event without storing the phase
set_status_NoStore(s) ==
    /\ status' = status
    /\ events' = Publish(events, s)

\* set_status
set_status(s) ==
    /\ status' = s
    /\ events' = Publish(events, s)

\* a stop handler that keeps the recorder
EndSession_KeepRecorder(evs) ==
    /\ UNCHANGED recorder
    /\ prev_text' = <<>>
    /\ typed_len' = 0
    /\ status' = "Idle"
    /\ events' = Publish(evs, "Idle")
    /\ typed' = <<>>
    /\ produced' = {}

\* a stop handler that forgets to reset the session text state
EndSession_KeepText(evs) ==
    /\ recorder' = FALSE
    /\ UNCHANGED <<prev_text, typed_len>>
    /\ status' = "Idle"
    /\ events' = Publish(evs, "Idle")
    /\ typed' = <<>>
    /\ produced' = {}

\* the tail of the stop handler: drop the recorder, reset, publish Idle
EndSession(evs) ==
    /\ recorder' = FALSE
    /\ prev_text' = <<>>
    /\ typed_len' = 0
    /\ status' = "Idle"
    /\ events' = Publish(evs, "Idle")
    /\ typed' = <<>>
    /\ produced' = {}

\* a str slice whose start is not a char boundary panics: the worker thread
\* unwinds, its locals (recorder, receiver) are dropped, the published status
\* stays as it is
Panic ==
    /\ pc' = "panicked"
    /\ recorder' = FALSE
    /\ queue' = <<>>
    /\ UNCHANGED <<status, events, prev_text, typed_len, transcriber>>

\* the texts transcribe() may return next in this session
MayReturn == {t \in Transcripts : Cardinality(produced \cup {t}) <= MaxTranscripts}

\* a worker that would take a command or a timeout wherever it stands
AtRecv_Any == pc # "panicked"

\* the worker is blocked in rx.recv() / rx.recv_timeout(): the only place
\* where it takes a command or a timeout
AtRecv == pc = "recv"

\* a length test that lets a snapshot one sample too short through
TooShort_OffByOne(n) == n < MIN_AUDIO_SAMPLES - 1

\* audio.len() < MIN_AUDIO_SAMPLES
TooShort(n) == n < MIN_AUDIO_SAMPLES

\* a failed start that still announces Recording
StartFailed_Announce ==
    /\ lastOp' = Op("start", "err", <<>>, <<>>, 1, 0, "none")
    /\ set_status("Recording")
    /\ UNCHANGED <<recorder, prev_text, typed_len, typed, produced>>

\* Toggle in Idle when AudioRecorder::new or rec.start() fails: one error
\* event, then back to the receive
StartFailed ==
    /\ lastOp' = Op("start", "err", <<>>, <<>>, 1, 0, "none")
    /\ UNCHANGED <<recorder, prev_text, typed_len, status, events, typed,
                   produced>>

\* Ok(WorkerCmd::Toggle)
Toggle ==
    /\ UNCHANGED <<pure, hotkey>>
    /\ AtRecv
    /\ queue # <<>>
    /\ Head(queue).cmd = "Toggle"
    /\ queue' = Tail(queue)
    /\ UNCHANGED transcriber
    /\ CASE status = "Idle" ->
              \E newOk \in BOOLEAN, startOk \in BOOLEAN :
                 /\ IF newOk /\ startOk
                    THEN /\ recorder' = TRUE
                         /\ prev_text' = <<>>
                         /\ typed_len' = 0
                         /\ set_status("Recording")
                         /\ typed' = <<>>
                         /\ produced' = {}
                         /\ lastOp' = Op("start", "ok", <<>>, <<>>, 0, 0, "none")
                    ELSE StartFailed
                 /\ UNCHANGED pc
         [] status = "Recording" ->
              \E n \in AudioLens :
                 IF recorder /\ ~TooShort(n) /\ transcriber # 0
                 THEN \* the worker enters t.transcribe(&audio, &language)
                      /\ set_status("Transcribing")
                      /\ pc' = "finalize"
                      /\ lastOp' = Op("stopBegin", "ok", <<>>, <<>>, 0, n, "none")
                      /\ UNCHANGED <<recorder, prev_text, typed_len, typed,
                                     produced>>
                 ELSE \* no transcription pass: the handler runs to its end
                      /\ EndSession(Publish(events, "Transcribing"))
                      /\ lastOp' = Op("stop",
                                      IF recorder /\ ~TooShort(n)
                                      THEN "nomodel" ELSE "short",
                                      <<>>, <<>>, 0,
                                      IF recorder THEN n ELSE 0, "none")
                      /\ UNCHANGED pc
         [] status = "Transcribing" ->
                 /\ lastOp' = Op("ignore", "ok", <<>>, <<>>, 0, 0, "none")
                 /\ UNCHANGED <<recorder, prev_text, typed_len, status, events,
                                pc, typed, produced>>

\* the bytes the stop handler passes to type_text for a final transcript
FinalEmit(text, tl) ==
    IF ByteLen(text) > tl THEN Slice(text, tl, ByteLen(text)) ELSE <<>>

\* what may become of a type_text call: "none" when nothing is passed to it
TypingOutcomes(bytes) == IF bytes = <<>> THEN {"none"} ELSE {"ok", "failed"}

\* the stop handler from the return of the final transcribe call to its end
Finalize ==
    /\ UNCHANGED <<pure, hotkey>>
    /\ pc = "finalize"
    /\ UNCHANGED transcriber
    /\ \/ /\ EndSession(events)
          /\ lastOp' = Op("stop", "err", <<>>, <<>>, 1, lastOp.audio, "none")
          /\ pc' = "recv"
          /\ UNCHANGED queue
       \/ \E text \in MayReturn :
            /\ IF ByteLen(text) > typed_len /\ ~IsCharBoundary(text, typed_len)
               THEN /\ Panic
                    /\ produced' = produced \cup {text}
                    /\ lastOp' = Op("stop", "panic", text, <<>>, 0,
                                    lastOp.audio, "none")
                    /\ UNCHANGED typed
               ELSE LET out == FinalEmit(text, typed_len) IN
                    /\ EndSession(events)
                    \* let _ = typing::type_text(remaining): no error event
                    /\ \E typing \in TypingOutcomes(out) :
                         lastOp' = Op("stop", "ok", text, out, 0,
                                      lastOp.audio, typing)
                    /\ pc' = "recv"
                    /\ UNCHANGED queue

\* a streaming pass that always moves typed_len to the stable length
TickTypedLen_Rewind(stable, tl) == stable

\* typed_len after a successful streaming pass
TickTypedLen(stable, tl) == IF stable > tl THEN stable ELSE tl

\* the bytes a successful streaming pass passes to type_text
TickEmit(curr, stable, tl) ==
    IF stable > tl THEN Slice(curr, tl, stable) ELSE <<>>

\* a failed streaming pass that forgets the previous transcript
TickFailed_ForgetPrev ==
    /\ lastOp' = Op("tick", "err", <<>>, <<>>, 0, lastOp.audio, "none")
    /\ pc' = "recv"
    /\ prev_text' = <<>>
    /\ UNCHANGED <<recorder, typed_len, typed, produced, queue>>

\* a streaming pass whose transcribe call failed: logged, nothing else
TickFailed ==
    /\ lastOp' = Op("tick", "err", <<>>, <<>>, 0, lastOp.audio, "none")
    /\ pc' = "recv"
    /\ UNCHANGED <<recorder, prev_text, typed_len, typed, produced, queue>>

\* Err(RecvTimeoutError::Timeout): the streaming tick, up to its end or to
\* its transcribe call
Tick ==
    /\ UNCHANGED <<pure, hotkey>>
    /\ AtRecv
    /\ recorder
    /\ queue = <<>>
    /\ UNCHANGED <<transcriber, status, events, recorder, prev_text, typed_len,
                   typed, produced, queue>>
    /\ \E n \in AudioLens :
         \/ /\ TooShort(n)
            /\ lastOp' = Op("tick", "short", <<>>, <<>>, 0, n, "none")
            /\ UNCHANGED pc
         \/ /\ ~TooShort(n) /\ transcriber = 0
            /\ lastOp' = Op("tick", "nomodel", <<>>, <<>>, 1, n, "none")
            /\ UNCHANGED pc
         \/ /\ ~TooShort(n) /\ transcriber # 0
            \* the worker enters t.transcribe(&audio, &language)
            /\ lastOp' = Op("tickBegin", "ok", <<>>, <<>>, 0, n, "none")
            /\ pc' = "tick"

\* the streaming tick from the return of its transcribe call to its end
TickTranscribed ==
    /\ UNCHANGED <<pure, hotkey>>
    /\ pc = "tick"
    /\ UNCHANGED <<transcriber, status, events>>
    /\ \/ TickFailed
       \/ \E curr \in MayReturn :
            LET stable == stable_prefix_len(prev_text, curr) IN
            /\ produced' = produced \cup {curr}
            /\ IF stable > typed_len /\ ~IsCharBoundary(curr, typed_len)
               THEN /\ Panic
                    /\ lastOp' = Op("tick", "panic", curr, <<>>, 0,
                                    lastOp.audio, "none")
                    /\ UNCHANGED typed
               ELSE LET out == TickEmit(curr, stable, typed_len) IN
                    /\ typed' = typed \o out
                    /\ typed_len' = TickTypedLen(stable, typed_len)
                    /\ prev_text' = curr
                    \* let _ = typing::type_text(new_text): no error event
                    /\ \E typing \in TypingOutcomes(out) :
                         lastOp' = Op("tick", "ok", curr, out, 0,
                                      lastOp.audio, typing)
                    /\ pc' = "recv"
                    /\ UNCHANGED <<recorder, queue>>

\* a reload that drops the current transcriber when the load fails
ReloadResult_DropOnFail(cur, path, exists, ok) ==
    IF exists THEN (IF ok THEN path ELSE 0) ELSE cur

\* the transcriber held after UpdateSettings(path)
ReloadResult(cur, path, exists, ok) == IF exists /\ ok THEN path ELSE cur

\* Ok(WorkerCmd::UpdateSettings(settings))
UpdateSettings ==
    /\ UNCHANGED <<pure, hotkey>>
    /\ AtRecv
    /\ queue # <<>>
    /\ Head(queue).cmd = "UpdateSettings"
    /\ queue' = Tail(queue)
    /\ \E exists \in BOOLEAN, ok \in BOOLEAN :
         /\ transcriber' = ReloadResult(transcriber, Head(queue).path, exists, ok)
         /\ lastOp' = Op("update",
                         IF ~exists THEN "noexist"
                         ELSE IF ok THEN "ok" ELSE "loadfail",
                         <<>>, <<>>, 0, 0, "none")
    /\ UNCHANGED <<status, events, recorder, prev_text, typed_len, pc,
                   typed, produced>>

Next ==
    \/ SendToggle
    \/ \E p \in Paths : SendUpdateSettings(p)
    \/ Toggle
    \/ Finalize
    \/ Tick
    \/ TickTranscribed
    \/ UpdateSettings

Spec == Init /\ [][Next]_vars

\* the worker thread keeps running: a command waiting in the channel is
\* received, a receive whose channel stays empty times out, and a transcribe
\* call returns; nothing is assumed about when commands are sent
FairSpec ==
    /\ Spec
    /\ WF_vars(Toggle)
    /\ WF_vars(UpdateSettings)
    /\ WF_vars(Tick)
    /\ WF_vars(TickTranscribed)
    /\ WF_vars(Finalize)

\* ------------------------------------------- stable_prefix_len in isolation
\* one code point for each UTF-8 length: 'a' (1 byte), U+00E9 (2 bytes),
\* U+20AC (3 bytes), U+1F600 (4 bytes)
CodePoints == {97, 233, 8364, 128512}

\* the strings handed to stable_prefix_len
Strings == UNION {[1..n -> CodePoints] : n \in 0..MaxChars}

\* any two strings; the worker has not been started
PureInit ==
    /\ arg_a \in Strings
    /\ arg_b \in Strings
    /\ ret = -1
    /\ HotkeyStart
    /\ status = "Idle"
    /\ queue = <<>>
    /\ transcriber = 0
    /\ recorder = FALSE
    /\ prev_text = <<>>
    /\ typed_len = 0
    /\ pc = "recv"
    /\ typed = <<>>
    /\ produced = {}
    /\ events = <<>>
    /\ lastOp = Op("none", "ok", <<>>, <<>>, 0, 0, "none")

\* the call stable_prefix_len(a, b)
Call ==
    /\ ret = -1
    /\ ret' = stable_prefix_len(arg_a, arg_b)
    /\ UNCHANGED <<arg_a, arg_b, status, queue, transcriber, recorder,
                   prev_text, typed_len, pc, typed, produced, events, lastOp,
                   hotkey>>

PureNext == Call

PureSpec == PureInit /\ [][PureNext]_vars

\* ------------------------------------------------------- hotkey listener
\* milliseconds between two consecutive input events
Gaps == {200, 399, 400}

\* now.duration_since(last_release) after dt more milliseconds
Elapsed(dt) ==
    IF since_release + dt < DOUBLE_PRESS_WINDOW
    THEN since_release + dt ELSE DOUBLE_PRESS_WINDOW

\* armed && now.duration_since(last_release) < DOUBLE_PRESS_WINDOW
IsDoubleAlt(dt) == armed /\ Elapsed(dt) < DOUBLE_PRESS_WINDOW

\* a detector that stays armed after it has sent DoubleAlt
ArmedAfterRelease_StayArmed(double) == TRUE

\* armed after KeyRelease(Alt)
ArmedAfterRelease(double) == ~double

\* the worker is not running here: its state stays as constructed
WorkerIdle ==
    UNCHANGED <<status, transcriber, recorder, prev_text, typed_len, pc,
                typed, produced, events, lastOp, pure>>

\* the listener before its first event, the worker as constructed
HotkeyInit ==
    /\ HotkeyStart
    /\ status = "Idle"
    /\ queue = <<>>
    /\ transcriber = 0
    /\ recorder = FALSE
    /\ prev_text = <<>>
    /\ typed_len = 0
    /\ pc = "recv"
    /\ typed = <<>>
    /\ produced = {}
    /\ events = <<>>
    /\ lastOp = Op("none", "ok", <<>>, <<>>, 0, 0, "none")
    /\ arg_a = <<>>
    /\ arg_b = <<>>
    /\ ret = -1

\* rdev::EventType::KeyRelease(rdev::Key::Alt), dt ms after the previous event
AltRelease(dt) ==
    /\ releases < MaxReleases
    /\ releases' = releases + 1
    /\ LET double == IsDoubleAlt(dt)
           rapid == run > 0 /\ Elapsed(dt) < DOUBLE_PRESS_WINDOW
       IN  /\ hotkey_chan' = IF double THEN hotkey_chan + 1 ELSE hotkey_chan
           /\ sent' = IF double THEN sent + 1 ELSE sent
           /\ armed' = ArmedAfterRelease(double)
           /\ run' = IF rapid THEN run + 1 ELSE 1
           /\ run_sent' = (IF rapid THEN run_sent ELSE 0)
                           + (IF double THEN 1 ELSE 0)
    /\ since_release' = 0
    /\ UNCHANGED queue
    /\ WorkerIdle

\* rdev::EventType::KeyPress(key), key neither Alt nor AltGr
OtherKeyPress(dt) ==
    /\ armed' = FALSE
    /\ since_release' = Elapsed(dt)
    /\ run' = 0
    /\ run_sent' = 0
    /\ UNCHANGED <<hotkey_chan, releases, sent, queue>>
    /\ WorkerIdle

\* any other event (a press of Alt or AltGr, a release of another key)
IgnoredEvent(dt) ==
    /\ since_release' = Elapsed(dt)
    /\ UNCHANGED <<armed, hotkey_chan, releases, run, run_sent, sent, queue>>
    /\ WorkerIdle

\* the forwarding thread of run(): one Toggle for each DoubleAlt received
Forward ==
    /\ hotkey_chan > 0
    /\ hotkey_chan' = hotkey_chan - 1
    /\ queue' = Send([cmd |-> "Toggle", path |-> 0, inFinal |-> FALSE])
    /\ UNCHANGED <<armed, since_release, releases, run, run_sent, sent>>
    /\ WorkerIdle

HotkeyNext ==
    \/ \E dt \in Gaps : AltRelease(dt)
    \/ \E dt \in Gaps : OtherKeyPress(dt)
    \/ \E dt \in Gaps : IgnoredEvent(dt)
    \/ Forward

HotkeySpec == HotkeyInit /\ [][HotkeyNext]_vars

\* ================================================================ claims

\* the step in which the worker dequeues and handles a Toggle
ToggleStep ==
    pc = "recv" /\ queue # <<>> /\ Head(queue).cmd = "Toggle" /\ queue' = Tail(queue)

\* the step in which the worker dequeues and handles an UpdateSettings
UpdateStep ==
    /\ pc = "recv" /\ queue # <<>> /\ Head(queue).cmd = "UpdateSettings"
    /\ queue' = Tail(queue)

\* C1: in every state of a session, the concatenation of the strings passed to
\* type_text since the session started is a prefix of at least one transcript
\* that transcribe returned during the session.
C1_TypedIsPrefixOfSomeTranscript ==
    typed = <<>> \/ \E t \in produced : IsPrefix(typed, Bytes(t))

\* C2: when the final transcription succeeds, the streaming chunks followed by
\* the final suffix are together a prefix of the final transcript.
C2_TypedIsPrefixOfFinal ==
    [][(pc = "finalize" /\ lastOp'.op = "stop" /\ lastOp'.out = "ok")
         => IsPrefix(typed \o lastOp'.emitted, Bytes(lastOp'.text))]_vars

\* C3: between two iterations of the coordinator loop,
\* typed_len <= byte_length(prev_text).
C3_TypedLenWithinPrevText ==
    pc = "recv" => typed_len <= ByteLen(prev_text)

\* C4: within a session (from the step after Idle -> Recording until the
\* return to Idle) no step decreases typed_len.
C4_TypedLenNeverDecreases ==
    [][(status # "Idle" /\ status' # "Idle") => typed_len' >= typed_len]_vars

\* C4 witness: a session in which a streaming tick advanced typed_len and a
\* later tick, whose stable prefix was not longer, left it alone.
C4_Witness ==
    /\ status = "Recording" /\ typed_len > 0
    /\ lastOp.op = "tick" /\ lastOp.out = "ok" /\ lastOp.emitted = <<>>
    /\ ByteLen(prev_text) < typed_len

\* C5: whenever the phase is Idle, and right after every Idle -> Recording
\* transition, prev_text is empty and typed_len is 0.
C5_SessionReset ==
    (status = "Idle" \/ lastOp.op = "start") => (prev_text = <<>> /\ typed_len = 0)

\* C5 witness: a session starts right after an earlier session has ended.
C5_Witness ==
    /\ lastOp.op = "start" /\ lastOp.out = "ok" /\ status = "Recording"
    /\ Len(events) >= 3 /\ events[Len(events) - 1] = "Idle"

\* the order in which status-changed events may follow one another
EventSuccessors ==
    {<<"Recording", "Transcribing">>, <<"Transcribing", "Idle">>,
     <<"Idle", "Recording">>}

\* C6: the status-changed events are published in the order Recording,
\* Transcribing, Idle, session after session, beginning with Recording; the
\* published phase is always the last event (so Transcribing is never
\* published from Idle, nor Recording from Recording or Transcribing).
C6_StatusEventOrder ==
    /\ \A i \in 1..(Len(events) - 1) : <<events[i], events[i + 1]>> \in EventSuccessors
    /\ (events # <<>> /\ Len(events) < EventWindow) => events[1] = "Recording"
    /\ status = IF events = <<>> THEN "Idle" ELSE events[Len(events)]

\* C6 witness: a whole session has been published.
C6_Witness ==
    /\ Len(events) >= 3 /\ status = "Idle"
    /\ SubSeq(events, Len(events) - 2, Len(events))
         = <<"Recording", "Transcribing", "Idle">>

\* C7: a Toggle sent while the coordinator is inside the final transcription
\* is a no-op when it is dequeued: phase, recorder, prev_text and typed_len
\* stay as they are and no session is started.
C7_ToggleSentDuringFinalIsNoOp ==
    [][(ToggleStep /\ Head(queue).inFinal)
         => UNCHANGED <<status, recorder, prev_text, typed_len>>]_vars

\* C8: the coordinator never stops running inside the stop handler: it is
\* never dead with the phase left at Transcribing.
C8_NeverStuckInTranscribing ==
    ~(pc = "panicked" /\ status = "Transcribing")

\* C9: UpdateSettings whose model_path is the path of the loaded model
\* constructs no Transcriber.
C9_SamePathNoReload ==
    [][(UpdateStep /\ Head(queue).path = transcriber)
         => lastOp'.out = "noexist"]_vars

\* C10: UpdateSettings leaves phase, recorder, prev_text and typed_len alone,
\* replaces the transcriber exactly when the path exists and the load
\* succeeds, and otherwise keeps the transcriber (or the absence of one).
C10_UpdateSettingsFrame ==
    [][UpdateStep =>
         /\ UNCHANGED <<status, recorder, prev_text, typed_len>>
         /\ lastOp'.op = "update"
         /\ transcriber' = IF lastOp'.out = "ok" THEN Head(queue).path
                           ELSE transcriber]_vars

\* C10 witness: during a session with typed text, a reload failed and the
\* loaded transcriber was kept.
C10_Witness ==
    /\ lastOp.op = "update" /\ lastOp.out = "loadfail"
    /\ status = "Recording" /\ typed_len > 0 /\ transcriber # 0

\* C11: a Toggle handled in Idle whose AudioRecorder::new or start fails
\* publishes exactly one error event and no status-changed event, leaves the
\* phase Idle, holds no recorder, leaves prev_text and typed_len as they were,
\* and returns to the receive, where a later Toggle can start a session.
C11_FailedStartIsHarmless ==
    [][(ToggleStep /\ status = "Idle" /\ lastOp'.out = "err")
         => /\ lastOp'.errs = 1
            /\ events' = events
            /\ status' = "Idle"
            /\ ~recorder'
            /\ prev_text' = prev_text /\ typed_len' = typed_len
            /\ pc' = "recv"]_vars

C11_Witness ==
    /\ lastOp.op = "start" /\ lastOp.out = "err"
    /\ status = "Idle" /\ ~recorder
    /\ events # <<>>

\* C12: when type_text fails during a streaming tick or during the final
\* pass, an error event is published, and typed_len is not rewound: after a
\* failed streaming emission it still covers the chunk that was attempted.
C12_TypingFailureReported ==
    lastOp.typing = "failed"
      => /\ lastOp.errs >= 1
         /\ lastOp.op = "tick" => typed_len >= Len(lastOp.emitted)

\* C13: whenever a transcription pass is attempted (a streaming tick or the
\* final pass, with at least MIN_AUDIO_SAMPLES samples) while no model is
\* loaded, an error event is published; a tick in that case leaves the session
\* Recording.
C13_NoModelReported ==
    lastOp.out = "nomodel"
      => /\ lastOp.errs = 1
         /\ lastOp.op = "tick" /\ pc = "recv" /\ queue = <<>>
              => status = "Recording" /\ recorder

\* C14: a transcribe error during a streaming tick leaves the phase Recording
\* and prev_text, typed_len and the recorder unchanged, with nothing passed to
\* type_text; a transcribe error during the final pass publishes an error
\* event, passes nothing to type_text, and the phase still becomes Idle.
C14_TranscribeErrorHandling ==
    [][/\ (pc = "tick" /\ lastOp'.out = "err")
            => /\ status = "Recording" /\ status' = "Recording"
               /\ recorder /\ recorder'
               /\ prev_text' = prev_text /\ typed_len' = typed_len
               /\ typed' = typed /\ lastOp'.emitted = <<>>
       /\ (pc = "finalize" /\ lastOp'.out = "err")
            => /\ lastOp'.errs = 1
               /\ lastOp'.emitted = <<>> /\ lastOp'.typing = "none"
               /\ status' = "Idle" /\ pc' = "recv"]_vars

\* C14 witness: a streaming pass failed in a session that had already typed
\* text and holds a previous transcript.
C14_Witness ==
    /\ lastOp.op = "tick" /\ lastOp.out = "err"
    /\ status = "Recording" /\ typed_len > 0 /\ prev_text # <<>>

\* C15: transcribe is never invoked on a snapshot of fewer than
\* MIN_AUDIO_SAMPLES samples: a streaming tick with a shorter snapshot emits
\* nothing and leaves prev_text, typed_len and the phase unchanged, and a stop
\* with a shorter snapshot emits nothing and returns to Idle.
C15_ShortAudioNeverTranscribed ==
    [][/\ (pc = "recv" /\ pc' \in {"tick", "finalize"})
            => lastOp'.audio >= MIN_AUDIO_SAMPLES
       /\ (pc = "recv" /\ lastOp' # lastOp /\ lastOp'.op \in {"tick", "stop"}
             /\ lastOp'.audio < MIN_AUDIO_SAMPLES)
            => /\ pc' = "recv"
               /\ lastOp'.emitted = <<>> /\ lastOp'.errs = 0
               /\ lastOp'.op = "tick"
                    => UNCHANGED <<prev_text, typed_len, status, typed>>
               /\ lastOp'.op = "stop" => status' = "Idle" /\ ~recorder']_vars

\* C15 witness: a tick found a snapshot one sample short of the minimum in a
\* session that holds a previous transcript and typed text.
C15_Witness ==
    /\ lastOp.op = "tick" /\ lastOp.out = "short"
    /\ lastOp.audio = MIN_AUDIO_SAMPLES - 1
    /\ status = "Recording" /\ typed_len > 0 /\ prev_text # <<>>

\* a transcribe call of the worker has been entered and has not returned
InFlight == pc \in {"tick", "finalize"}

\* C16: at most one transcribe call is in flight and the worker never handles
\* a command while a streaming tick is in progress, nor a tick while a command
\* is in progress, whatever Toggle and UpdateSettings sends interleave: while
\* a call is in flight no command is dequeued, no other call is entered and the
\* transcriber is not replaced; the only worker step is the return of that
\* call.
C16_OneOperationAtATime ==
    [][InFlight
         => /\ \/ queue' = queue
               \/ Len(queue') = Len(queue) + 1
                    /\ SubSeq(queue', 1, Len(queue)) = queue
               \/ pc' = "panicked"
            /\ transcriber' = transcriber
            /\ lastOp' # lastOp
                 => /\ lastOp'.op = (IF pc = "tick" THEN "tick" ELSE "stop")
                    /\ pc' \in {"recv", "panicked"}]_vars

\* C16 witness: a Toggle is waiting in the channel while the transcribe call of
\* a streaming tick is in flight.
C16_Witness ==
    /\ pc = "tick" /\ lastOp.op = "tickBegin"
    /\ queue # <<>> /\ Head(queue).cmd = "Toggle"

\* C17: wherever the worker is blocked on the command channel, a recorder is
\* held if and only if the published phase is Recording; a recorder is held
\* during Transcribing only inside the stop handler, and never while the phase
\* is Idle.
C17_RecorderMatchesPhase ==
    /\ pc = "recv" => (recorder <=> status = "Recording")
    /\ (status = "Transcribing" /\ recorder) => pc = "finalize"
    /\ status = "Idle" => ~recorder

\* C17 witness: the stop handler is inside the final transcribe call, the
\* phase is Transcribing and the recorder is still held.
C17_Witness ==
    status = "Transcribing" /\ recorder /\ pc = "finalize"

\* the number of leading code points a and b have in common
CommonChars(a, b) ==
    CHOOSE k \in 0..Len(a) :
       /\ k <= Len(b)
       /\ SubSeq(a, 1, k) = SubSeq(b, 1, k)
       /\ (k = Len(a) \/ k = Len(b) \/ a[k + 1] # b[k + 1])

\* C18: for all strings a and b of code points of 1 to 4 UTF-8 bytes,
\* stable_prefix_len(a, b) is the byte length of the longest common code-point
\* prefix of a and b; it is a char boundary of both, at most the byte length
\* of either, and symmetric in a and b.
C18_StablePrefixLen ==
    ret # -1
      => /\ ret = ByteLen(SubSeq(arg_a, 1, CommonChars(arg_a, arg_b)))
         /\ IsCharBoundary(arg_a, ret) /\ IsCharBoundary(arg_b, ret)
         /\ ret <= ByteLen(arg_a) /\ ret <= ByteLen(arg_b)
         /\ ret = stable_prefix_len(arg_b, arg_a)

\* C18 witness: the call returned for two strings that share a 4-byte and a
\* 2-byte code point and then differ, both being longer than the result.
C18_Witness ==
    /\ ret = 6
    /\ arg_a # arg_b
    /\ ret < ByteLen(arg_a) /\ ret < ByteLen(arg_b)

\* C19: on a streaming tick whose transcribe call returned curr_text, with
\* stable = stable_prefix_len(prev_text, curr_text): if stable > typed_len then
\* exactly curr_text[typed_len..stable] is passed to type_text, once, and
\* typed_len becomes stable; otherwise nothing is passed and typed_len is
\* unchanged; in both cases prev_text becomes curr_text and the phase stays
\* Recording.
C19_SuccessfulTick ==
    [][(pc = "tick" /\ lastOp'.op = "tick" /\ lastOp'.out # "err")
         => LET curr == lastOp'.text
                stable == stable_prefix_len(prev_text, curr)
            IN  /\ IF stable > typed_len
                   THEN /\ lastOp'.emitted = Slice(curr, typed_len, stable)
                        /\ typed' = typed \o lastOp'.emitted
                        /\ typed_len' = stable
                   ELSE /\ lastOp'.emitted = <<>>
                        /\ typed' = typed
                        /\ typed_len' = typed_len
                /\ prev_text' = curr
                /\ status' = "Recording"
                /\ pc' = "recv"]_vars

\* C20: while the phase stays Recording, streaming ticks keep firing, also
\* when UpdateSettings commands are received in between: a session that is
\* never toggled off (and whose worker has not panicked) performs ticks
\* infinitely often.
C20_TicksKeepFiring ==
    []<>(\/ status # "Recording"
         \/ pc = "panicked"
         \/ lastOp.op \in {"tick", "tickBegin"})

\* C21: every string slice taken by the worker is well-formed: whenever a
\* streaming tick evaluates curr_text[typed_len..stable] or the stop handler
\* evaluates text[typed_len..], typed_len is a char boundary of that
\* transcript and typed_len <= stable <= its byte length, so the worker never
\* panics on a slice and never splits a code point.
C21_SlicesWellFormed ==
    [][/\ (pc = "tick" /\ lastOp'.op = "tick" /\ lastOp'.out # "err")
            => LET curr == lastOp'.text
                   stable == stable_prefix_len(prev_text, curr)
               IN  stable > typed_len
                     => /\ IsCharBoundary(curr, typed_len)
                        /\ IsCharBoundary(curr, stable)
                        /\ stable <= ByteLen(curr)
       /\ (pc = "finalize" /\ lastOp'.op = "stop" /\ lastOp'.out # "err")
            => LET text == lastOp'.text
               IN  ByteLen(text) > typed_len
                     => IsCharBoundary(text, typed_len)
       /\ pc' # "panicked"]_vars

\* C22: the hotkey listener sends DoubleAlt exactly when an Alt release comes
\* less than DOUBLE_PRESS_WINDOW after the previous Alt release while the
\* detector is armed, with no press of a key other than Alt/AltGr in between;
\* sending disarms the detector, so over a run of k rapid consecutive Alt
\* releases exactly k \div 2 DoubleAlt events are sent (the detector is armed
\* exactly when the run has odd length), and each is forwarded as one Toggle.
C22_DoubleAltDetection ==
    /\ run_sent = run \div 2
    /\ armed <=> run % 2 = 1
    /\ sent = hotkey_chan + Len(queue)
    /\ \A i \in 1..Len(queue) : queue[i].cmd = "Toggle"

\* C22 witness: a run of four rapid Alt releases has sent DoubleAlt twice, and
\* both have been forwarded to the worker's channel.
C22_Witness ==
    /\ run = 4 /\ run_sent = 2
    /\ hotkey_chan = 0 /\ Len(queue) = 2

====
